---- MODULE Spec2Model ----
(***************************************************************************)
(* Rule analysis of rule_analyzer/translator.py: the variable-occurrence   *)
(* index, the binding resolver, the join / comparison / negation / head    *)
(* planners and the recursive alias group builder.                         *)
(*                                                                         *)
(* Python indices are kept 0-based in every value the code produces        *)
(* (atom_index, arg_index, group_iter); TLA+ sequences are 1-based, so     *)
(* element i of a Python list is seq[i + 1].                               *)
(***************************************************************************)
EXTENDS Integers, Sequences, FiniteSets, TLC

VARIABLES
    pc,                       \* position of the caller in the analysis
    body_atoms,               \* positive body atoms of the rule
    variable_arg_to_atom_map, \* VariableOccurrenceIndex (insertion ordered)
    call,                     \* the extractor last called and its argument
    result,                   \* what that call returned or raised
    eval_idb_to_rule_maps,    \* key set of the relations evaluated this round
    iter_num,                 \* semi-naive iteration number
    atom_aliases_map,         \* output of build_recursive_atom_aliases
    atom_eval_name_groups,    \* list of (partial) alias groups
    atom_index,               \* loop variable of the expansion loop
    group_iter                \* position of the list iterator of the removal loop

vars == <<pc, body_atoms, variable_arg_to_atom_map, call, result,
          eval_idb_to_rule_maps, iter_num, atom_aliases_map,
          atom_eval_name_groups, atom_index, group_iter>>

analysis_vars == <<variable_arg_to_atom_map, call, result>>
groups_vars == <<eval_idb_to_rule_maps, iter_num, atom_aliases_map,
                 atom_eval_name_groups, atom_index, group_iter>>

(***************************************************************************)
(* Bounds of the model.                                                    *)
(***************************************************************************)
MaxGroupAtoms == 3
MaxIterNum == 2
MaxBodyArgs == 3
MaxComparisons == 2
MaxNegationArgs == 2
MaxHeadArgs == 2

RelationNames == {"R", "S", "E"}

RECURSIVE Pow2(_)
Pow2(n) == IF n = 0 THEN 1 ELSE 2 * Pow2(n - 1)

SeqsUpTo(S, n) == UNION {[1..k -> S] : k \in 0..n}

Range(s) == {s[i] : i \in 1..Len(s)}

(***************************************************************************)
(* Python values: None, and a call that either returns a value or raises.  *)
(***************************************************************************)
None == [kind |-> "None"]
Return(v) == [raised |-> "", value |-> v]
Raise(e) == [raised |-> e, value |-> None]

(***************************************************************************)
(* build_recursive_atom_aliases                                            *)
(***************************************************************************)
\* idb_num counted over every body atom instead of the evaluated ones
idb_num_all_atoms(atoms, eval) == Len(atoms)

\* lines 353-356: the number of body atoms whose relation is being evaluated
idb_num_of(atoms, eval) ==
    Cardinality({i \in 1..Len(atoms) : atoms[i].name \in eval})

\* lines 361-370: the candidate aliases of one atom
atom_alias_list(atom_name, eval, iter) ==
    IF atom_name \notin eval
    THEN << [alias |-> atom_name, type |-> "default"] >>
    ELSE << [alias |-> atom_name \o "_prev", type |-> "prev"],
            [alias |-> atom_name \o "_delta_" \o ToString(iter - 1),
             type |-> "delta"] >>

build_recursive_atom_aliases(atoms, eval, iter) ==
    [body_atom_eval_names |->
        [i \in 1..Len(atoms) |-> atom_alias_list(atoms[i].name, eval, iter)],
     idb_num |-> idb_num_of(atoms, eval)]

(***************************************************************************)
(* build_recursive_atom_alias_groups: the expansion loop (lines 399-421)   *)
(***************************************************************************)
\* group.append(name) for every group of a list of groups
AppendToEach(groups, name) ==
    [g \in 1..Len(groups) |-> Append(groups[g], name)]

\* the branch extended with the alias already used by the existing groups
BranchAliasOffByOne(atom_eval_names, k) == atom_eval_names[k + 1]

\* line 417: atom_eval_names[k+1] (0-based) for the k-th deep copy
BranchAlias(atom_eval_names, k) == atom_eval_names[k + 2]

\* the deep copies taken after line 414 has extended the existing groups
RECURSIVE AddedGroupsCopiedLate(_, _, _, _)
AddedGroupsCopiedLate(copy, atom_eval_names, k, factor) ==
    IF k >= factor THEN << >>
    ELSE AppendToEach(AppendToEach(copy, atom_eval_names[1]),
                      atom_eval_names[k + 2])
         \o AddedGroupsCopiedLate(copy, atom_eval_names, k + 1, factor)

\* lines 409-411 and 415-418: the deep copies k .. factor-1 of the groups as
\* they were before line 414, each extended and appended
RECURSIVE AddedGroups(_, _, _, _)
AddedGroups(copy, atom_eval_names, k, factor) ==
    IF k >= factor THEN << >>
    ELSE AppendToEach(copy, BranchAlias(atom_eval_names, k))
         \o AddedGroups(copy, atom_eval_names, k + 1, factor)

\* one iteration of the loop of line 399
ExpandGroups(groups, atom_eval_names) ==
    IF Len(groups) = 0
    THEN [n \in 1..Len(atom_eval_names) |-> << atom_eval_names[n] >>]
    ELSE IF Len(atom_eval_names) > 1
         THEN LET group_increasing_factor == Len(atom_eval_names) - 1
              IN AppendToEach(groups, atom_eval_names[1])
                 \o AddedGroups(groups, atom_eval_names, 0,
                                group_increasing_factor)
         ELSE AppendToEach(groups, atom_eval_names[1])

(***************************************************************************)
(* build_recursive_atom_alias_groups: the removal loop (lines 424-430)     *)
(***************************************************************************)
\* the count taken over the 'delta' entries
DeltaCount(group) ==
    Cardinality({i \in 1..Len(group) : group[i].type = "delta"})

\* lines 425-428
PrevCount(group) ==
    Cardinality({i \in 1..Len(group) : group[i].type = "prev"})

\* list.remove(x): drops the first element equal to x
ListRemove(list, x) ==
    LET at == CHOOSE i \in 1..Len(list) :
                  /\ list[i] = x
                  /\ \A j \in 1..(i - 1) : list[j] # x
    IN [i \in 1..(Len(list) - 1) |-> IF i < at THEN list[i] ELSE list[i + 1]]

(***************************************************************************)
(* The recursive alias group builder as a state machine.                   *)
(***************************************************************************)
GroupAtoms ==
    {[name |-> r, arg_list |-> << [type |-> "variable", name |-> "x"] >>] :
        r \in RelationNames}

InitGroups ==
    /\ pc = "start"
    /\ body_atoms \in SeqsUpTo(GroupAtoms, MaxGroupAtoms)
    /\ eval_idb_to_rule_maps \in SUBSET RelationNames
    /\ iter_num \in 1..MaxIterNum
    /\ atom_aliases_map = None
    /\ atom_eval_name_groups = << >>
    /\ atom_index = 0
    /\ group_iter = 0
    /\ variable_arg_to_atom_map = << >>
    /\ call = None
    /\ result = None

\* the caller runs step A and enters step B (lines 395-398)
BuildRecursiveAtomAliases ==
    /\ pc = "start"
    /\ atom_aliases_map' =
           build_recursive_atom_aliases(body_atoms, eval_idb_to_rule_maps,
                                        iter_num)
    /\ atom_eval_name_groups' = << >>
    /\ atom_index' = 0
    /\ pc' = "expand"
    /\ UNCHANGED <<body_atoms, eval_idb_to_rule_maps, iter_num, group_iter,
                   analysis_vars>>

\* one iteration of the loop of line 399
ExpandAtom ==
    /\ pc = "expand"
    /\ atom_index < Len(body_atoms)
    /\ atom_eval_name_groups' =
           ExpandGroups(atom_eval_name_groups,
                        atom_aliases_map.body_atom_eval_names[atom_index + 1])
    /\ atom_index' = atom_index + 1
    /\ UNCHANGED <<pc, body_atoms, eval_idb_to_rule_maps, iter_num,
                   atom_aliases_map, group_iter, analysis_vars>>

\* the loop of line 399 is exhausted; the loop of line 424 takes its iterator
StartRemoval ==
    /\ pc = "expand"
    /\ atom_index >= Len(body_atoms)
    /\ group_iter' = 0
    /\ pc' = "remove"
    /\ UNCHANGED <<body_atoms, eval_idb_to_rule_maps, iter_num,
                   atom_aliases_map, atom_eval_name_groups, atom_index,
                   analysis_vars>>

\* one iteration of the loop of line 424: the iterator yields the element at
\* its position and advances, whatever the body removes from the list
RemoveAllPrevStep ==
    /\ pc = "remove"
    /\ group_iter < Len(atom_eval_name_groups)
    /\ LET group == atom_eval_name_groups[group_iter + 1]
       IN atom_eval_name_groups' =
              IF PrevCount(group) = atom_aliases_map.idb_num
              THEN ListRemove(atom_eval_name_groups, group)
              ELSE atom_eval_name_groups
    /\ group_iter' = group_iter + 1
    /\ UNCHANGED <<pc, body_atoms, eval_idb_to_rule_maps, iter_num,
                   atom_aliases_map, atom_index, analysis_vars>>

\* line 432
ReturnGroups ==
    /\ pc = "remove"
    /\ group_iter >= Len(atom_eval_name_groups)
    /\ pc' = "done"
    /\ UNCHANGED <<body_atoms, groups_vars, analysis_vars>>

NextGroups ==
    \/ BuildRecursiveAtomAliases
    \/ ExpandAtom
    \/ StartRemoval
    \/ RemoveAllPrevStep
    \/ ReturnGroups

SpecGroups == InitGroups /\ [][NextGroups]_vars

(***************************************************************************)
(* Properties of the recursive alias group builder.                        *)
(***************************************************************************)
RecursiveAtoms == {i \in 1..Len(body_atoms) :
                      body_atoms[i].name \in eval_idb_to_rule_maps}

RecursiveAtomsDistinct ==
    \A i, j \in RecursiveAtoms : i # j => body_atoms[i].name # body_atoms[j].name

\* the candidate aliases step A gave to the atom at (1-based) position i
Candidates(i) == Range(atom_aliases_map.body_atom_eval_names[i])

\* every combination of one candidate per atom with at least one 'delta'
DeltaCombinations ==
    {g \in [1..Len(body_atoms) ->
               UNION {Candidates(i) : i \in 1..Len(body_atoms)}] :
        /\ \A i \in 1..Len(body_atoms) : g[i] \in Candidates(i)
        /\ \E i \in 1..Len(body_atoms) : g[i].type = "delta"}

\* C1: for a non-empty body whose recursive atoms are pairwise distinct
\* relations and k = idb_num >= 1, the builder returns exactly 2^k - 1 groups.
C1_GroupCount ==
    (/\ pc = "done"
     /\ Len(body_atoms) >= 1
     /\ RecursiveAtomsDistinct
     /\ atom_aliases_map.idb_num >= 1)
    => Len(atom_eval_name_groups) = Pow2(atom_aliases_map.idb_num) - 1

C1_Witness ==
    /\ pc = "done"
    /\ RecursiveAtomsDistinct
    /\ atom_aliases_map.idb_num = 3
    /\ Len(atom_eval_name_groups) = 7

\* C2 as stated: for a non-empty body with no atom in the eval set (k = 0)
\* the builder returns exactly one group, and every entry of it has kind
\* 'default'.
C2_OneDefaultGroup ==
    (/\ pc = "done"
     /\ Len(body_atoms) >= 1
     /\ RecursiveAtoms = {})
    => /\ Len(atom_eval_name_groups) = 1
       /\ \A i \in 1..Len(atom_eval_name_groups[1]) :
              atom_eval_name_groups[1][i].type = "default"

\* C2 as amended: for a non-empty body with no atom in the eval set the
\* expansion builds exactly one group, all 'default', and the removal loop
\* discards it (its 'prev' count 0 equals idb_num), so no group is returned.
C2_NoGroupWithoutRecursiveAtom ==
    (Len(body_atoms) >= 1 /\ RecursiveAtoms = {})
    => /\ (pc = "remove" /\ group_iter = 0)
          => /\ Len(atom_eval_name_groups) = 1
             /\ Len(atom_eval_name_groups[1]) = Len(body_atoms)
             /\ \A i \in 1..Len(body_atoms) :
                    atom_eval_name_groups[1][i]
                        = [alias |-> body_atoms[i].name, type |-> "default"]
       /\ pc = "done" => atom_eval_name_groups = << >>

C2_Witness ==
    /\ pc = "done"
    /\ Len(body_atoms) = 2
    /\ RecursiveAtoms = {}
    /\ group_iter = 1
    /\ atom_eval_name_groups = << >>

\* C8: for k = idb_num >= 1 (repeated recursive relations included) the
\* returned groups are exactly the per-atom candidate combinations with at
\* least one 'delta', each once; the all-'prev' combination is not returned.
C8_ExactlyDeltaCombinations ==
    (pc = "done" /\ atom_aliases_map.idb_num >= 1)
    => /\ Range(atom_eval_name_groups) = DeltaCombinations
       /\ Len(atom_eval_name_groups) = Cardinality(DeltaCombinations)

C8_Witness ==
    /\ pc = "done"
    /\ Len(body_atoms) = 2
    /\ body_atoms[1].name = "R"
    /\ body_atoms[2].name = "R"
    /\ "R" \in eval_idb_to_rule_maps
    /\ Len(atom_eval_name_groups) = 3
    /\ [i \in 1..3 |-> [j \in 1..2 |-> atom_eval_name_groups[i][j].type]]
           = << <<"delta", "prev">>, <<"prev", "delta">>, <<"delta", "delta">> >>

\* C10: after the atom at index i was processed every partial group has i+1
\* entries, entry j is a candidate of atom j, the groups are pairwise
\* distinct, there are 2^r of them (r recursive atoms among 0..i) and the
\* group without any 'delta' is first in the list.
C10_ExpansionInvariant ==
    (pc = "expand" /\ atom_index >= 1)
    => LET groups == atom_eval_name_groups
           r == Cardinality({j \in RecursiveAtoms : j <= atom_index})
       IN /\ \A g \in 1..Len(groups) :
                 /\ Len(groups[g]) = atom_index
                 /\ \A j \in 1..atom_index : groups[g][j] \in Candidates(j)
          /\ \A g, h \in 1..Len(groups) : g # h => groups[g] # groups[h]
          /\ Len(groups) = Pow2(r)
          /\ \A j \in 1..atom_index :
                 groups[1][j].type \in {"prev", "default"}
          /\ PrevCount(groups[1]) = r

C10_Witness ==
    /\ pc = "expand"
    /\ atom_index = 3
    /\ Len(atom_eval_name_groups) = 4
    /\ body_atoms[2].name \notin eval_idb_to_rule_maps

(***************************************************************************)
(* Insertion-ordered dictionaries (collections.OrderedDict): a sequence of *)
(* [key, val] entries in insertion order.  Plain dicts whose order is      *)
(* never observed are functions on their key set.                          *)
(***************************************************************************)
HasKey(od, k) == \E i \in 1..Len(od) : od[i].key = k

Get(od, k) == od[CHOOSE i \in 1..Len(od) : od[i].key = k].val

Put(od, k, v) ==
    IF HasKey(od, k)
    THEN [i \in 1..Len(od) |->
             IF od[i].key = k THEN [key |-> k, val |-> v] ELSE od[i]]
    ELSE Append(od, [key |-> k, val |-> v])

DictSet(d, k, v) ==
    [x \in (DOMAIN d) \cup {k} |-> IF x = k THEN v ELSE d[x]]

\* the (atom_index, arg_index) pairs of a list of atoms in the order of the
\* nested loops "for atom_index ... for arg_index ..."
RECURSIVE Positions(_, _)
Positions(atoms, i) ==
    IF i > Len(atoms) THEN << >>
    ELSE [j \in 1..Len(atoms[i].arg_list) |-> <<i - 1, j - 1>>]
         \o Positions(atoms, i + 1)

(***************************************************************************)
(* extract_variable_arg_to_atom_map (lines 9-40)                           *)
(***************************************************************************)
\* lines 31-38: one argument of one atom
IndexArg(map, atoms, atom_idx, arg_idx) ==
    LET arg == atoms[atom_idx + 1].arg_list[arg_idx + 1]
    IN IF arg.type # "variable" THEN map
       ELSE LET map1 == IF ~HasKey(map, arg.name)
                        THEN Put(map, arg.name, << >>) ELSE map
                inner == Get(map1, arg.name)
                inner1 == IF ~HasKey(inner, atom_idx)
                          THEN Put(inner, atom_idx, << >>) ELSE inner
                inner2 == Put(inner1, atom_idx,
                              Append(Get(inner1, atom_idx), arg_idx))
            IN Put(map1, arg.name, inner2)

RECURSIVE IndexPositions(_, _, _, _)
IndexPositions(map, atoms, positions, n) ==
    IF n > Len(positions) THEN map
    ELSE IndexPositions(IndexArg(map, atoms, positions[n][1], positions[n][2]),
                        atoms, positions, n + 1)

extract_variable_arg_to_atom_map(atoms) ==
    IndexPositions(<< >>, atoms, Positions(atoms, 1), 1)

(***************************************************************************)
(* search_argument_mapping_in_body_atoms (lines 43-59)                     *)
(***************************************************************************)
\* the last recorded pair instead of the first
search_last_mapping(map, var_name) ==
    IF ~HasKey(map, var_name) THEN Raise("KeyError")
    ELSE LET inner == Get(map, var_name)
             filled == {i \in 1..Len(inner) : Len(inner[i].val) > 0}
         IN IF filled = {} THEN Return(None)
            ELSE LET i == CHOOSE m \in filled : \A o \in filled : o <= m
                 IN Return([atom_index |-> inner[i].key,
                            arg_index |-> inner[i].val[Len(inner[i].val)]])

\* line 53 subscripts the dictionary (KeyError for an absent name); the
\* nested loops return at the first pair they reach, line 59 is reached when
\* there is none
search_argument_mapping_in_body_atoms(map, var_name) ==
    IF ~HasKey(map, var_name) THEN Raise("KeyError")
    ELSE LET inner == Get(map, var_name)
             filled == {i \in 1..Len(inner) : Len(inner[i].val) > 0}
         IN IF filled = {} THEN Return(None)
            ELSE LET i == CHOOSE m \in filled : \A o \in filled : m <= o
                 IN Return([atom_index |-> inner[i].key,
                            arg_index |-> inner[i].val[1]])

(***************************************************************************)
(* extract_join_map (lines 136-160)                                        *)
(***************************************************************************)
\* only the multi-atom condition of line 150
join_on_var_multi_atom_only(occurrences) == Len(occurrences) > 1

\* lines 148-156
join_on_var(occurrences) ==
    \/ Len(occurrences) > 1
    \/ \E a \in 1..Len(occurrences) : Len(occurrences[a].val) > 1

RECURSIVE JoinEntries(_, _, _)
JoinEntries(join_map, map, n) ==
    IF n > Len(map) THEN join_map
    ELSE JoinEntries(IF join_on_var(map[n].val)
                     THEN Put(join_map, map[n].key, map[n].val)
                     ELSE join_map,
                     map, n + 1)

extract_join_map(map) == JoinEntries(<< >>, map, 1)

(***************************************************************************)
(* extract_comparison_map (lines 163-222)                                  *)
(* A comparison is [lhs, rhs, op]; an operand is the pair <<arg, type>>    *)
(* with type 'var' or 'num'.                                               *)
(***************************************************************************)
\* float() of the literal tokens the model draws from, in tenths
FloatTenths == [t \in {"5"} |-> 50]

float(token) ==
    IF token \in DOMAIN FloatTenths
    THEN Return(FloatTenths[token]) ELSE Raise("ValueError")

\* lines 206-217: the descriptor of one comparison
comparison_struct(map, base_side, op, compare_arg, compare_arg_type) ==
    IF compare_arg_type = "num"
    THEN LET f == float(compare_arg)
         IN IF f.raised # "" THEN f
            ELSE Return([base_variable_side |-> base_side,
                         compare_op |-> op,
                         other_side_type |-> "num",
                         numerical_value |-> f.value])
    ELSE LET other == search_argument_mapping_in_body_atoms(map, compare_arg)
         IN IF other.raised # "" THEN other
            ELSE IF other.value = None THEN Raise("TypeError")
            ELSE Return([base_variable_side |-> base_side,
                         compare_op |-> op,
                         other_side_type |-> "var",
                         other_side_atom_index |-> other.value.atom_index,
                         other_side_arg_index |-> other.value.arg_index])

\* the descriptor replaces the list of its position
OverwriteDescriptor(comparison_map, mapped_atom_index, mapped_arg_index, struct) ==
    LET m1 == IF mapped_atom_index \notin DOMAIN comparison_map
              THEN DictSet(comparison_map, mapped_atom_index, << >>)
              ELSE comparison_map
    IN DictSet(m1, mapped_atom_index,
               DictSet(m1[mapped_atom_index], mapped_arg_index, << struct >>))

\* lines 202-205 and 219-220: append under [atom_index][arg_index]
AppendDescriptor(comparison_map, mapped_atom_index, mapped_arg_index, struct) ==
    LET m1 == IF mapped_atom_index \notin DOMAIN comparison_map
              THEN DictSet(comparison_map, mapped_atom_index, << >>)
              ELSE comparison_map
        at == m1[mapped_atom_index]
        at1 == IF mapped_arg_index \notin DOMAIN at
               THEN DictSet(at, mapped_arg_index, << >>) ELSE at
    IN DictSet(m1, mapped_atom_index,
               DictSet(at1, mapped_arg_index,
                       Append(at1[mapped_arg_index], struct)))

\* a comparison without a variable operand is passed over
malformed_comparison_skipped(comparison_map) == Return(comparison_map)

\* lines 184-185
malformed_comparison(comparison_map) == Raise("Exception")

\* lines 177-220: the body of the loop for one comparison
comparison_step(comparison_map, comparison, map) ==
    LET lhs_arg == comparison.lhs[1]
        rhs_arg == comparison.rhs[1]
        lhs_arg_type == comparison.lhs[2]
        rhs_arg_type == comparison.rhs[2]
    IN IF lhs_arg_type # "var" /\ rhs_arg_type # "var"
       THEN malformed_comparison(comparison_map)
       ELSE
       LET base_side == IF lhs_arg_type = "var" THEN "l" ELSE "r"
           base_var == IF lhs_arg_type = "var" THEN lhs_arg ELSE rhs_arg
           compare_arg == IF lhs_arg_type = "var" THEN rhs_arg ELSE lhs_arg
           compare_arg_type ==
               IF lhs_arg_type = "var" THEN rhs_arg_type ELSE lhs_arg_type
           found == search_argument_mapping_in_body_atoms(map, base_var)
       IN IF found.raised # "" THEN found
          ELSE IF found.value = None THEN Raise("TypeError")
          ELSE LET struct == comparison_struct(map, base_side, comparison.op,
                                               compare_arg, compare_arg_type)
               IN IF struct.raised # "" THEN struct
                  ELSE Return(AppendDescriptor(comparison_map,
                                               found.value.atom_index,
                                               found.value.arg_index,
                                               struct.value))

RECURSIVE ComparisonLoop(_, _, _, _)
ComparisonLoop(comparison_map, body_comparisons, map, n) ==
    IF n > Len(body_comparisons) THEN Return(comparison_map)
    ELSE LET step == comparison_step(comparison_map, body_comparisons[n], map)
         IN IF step.raised # "" THEN step
            ELSE ComparisonLoop(step.value, body_comparisons, map, n + 1)

extract_comparison_map(body_comparisons, map) ==
    ComparisonLoop(<< >>, body_comparisons, map, 1)

(***************************************************************************)
(* extract_negation_map (lines 256-303)                                    *)
(***************************************************************************)
\* lines 273-285
negation_map_of(body_negation_atoms) ==
    [n \in 0..(Len(body_negation_atoms) - 1) |->
        LET arg_list == body_negation_atoms[n + 1].arg_list
        IN [a \in 0..(Len(arg_list) - 1) |->
               [arg_name |-> arg_list[a + 1].name,
                arg_type |-> arg_list[a + 1].type]]]

\* lines 290-298: one position of one negated atom
anti_join_step(anti_join_map, negation_map, map, negation_atom_index, arg_index) ==
    LET entry == negation_map[negation_atom_index][arg_index]
    IN IF entry.arg_type # "variable" THEN Return(anti_join_map)
       ELSE LET found == search_argument_mapping_in_body_atoms(map, entry.arg_name)
            IN IF found.raised # "" THEN found
               ELSE IF found.value = None THEN Return(anti_join_map)
               ELSE LET m1 == IF negation_atom_index \notin DOMAIN anti_join_map
                              THEN DictSet(anti_join_map, negation_atom_index, << >>)
                              ELSE anti_join_map
                    IN Return(DictSet(m1, negation_atom_index,
                                      DictSet(m1[negation_atom_index], arg_index,
                                              found.value)))

RECURSIVE AntiJoinLoop(_, _, _, _, _)
AntiJoinLoop(anti_join_map, negation_map, map, positions, n) ==
    IF n > Len(positions) THEN Return(anti_join_map)
    ELSE LET step == anti_join_step(anti_join_map, negation_map, map,
                                    positions[n][1], positions[n][2])
         IN IF step.raised # "" THEN step
            ELSE AntiJoinLoop(step.value, negation_map, map, positions, n + 1)

extract_negation_map(body_negation_atoms, map) ==
    LET negation_map == negation_map_of(body_negation_atoms)
        anti == AntiJoinLoop(<< >>, negation_map, map,
                             Positions(body_negation_atoms, 1), 1)
    IN IF anti.raised # "" THEN anti
       ELSE Return([negation_map |-> negation_map,
                    anti_join_map |-> anti.value])

(***************************************************************************)
(* extract_selection_map (lines 61-133)                                    *)
(* A head argument is [type, name] for a variable or a constant,           *)
(* [type, expr] for a math expression (expr is the record the code reads   *)
(* from .name) and [type, agg] for an aggregation (agg likewise).          *)
(***************************************************************************)
\* lines 100-109 and 114-123: both operands of a math expression
math_expr_mapping(map, math_expr) ==
    LET lhs_variable_arg_mapping ==
            search_argument_mapping_in_body_atoms(map, math_expr.lhs)
        rhs_variable_arg_mapping ==
            search_argument_mapping_in_body_atoms(map, math_expr.rhs)
    IN IF lhs_variable_arg_mapping.raised # "" THEN lhs_variable_arg_mapping
       ELSE IF rhs_variable_arg_mapping.raised # "" THEN rhs_variable_arg_mapping
       ELSE Return([type |-> "math_expr",
                    lhs_map |-> lhs_variable_arg_mapping.value,
                    rhs_map |-> rhs_variable_arg_mapping.value,
                    math_op |-> math_expr.op])

\* lines 82-127: one head argument
selection_step(acc, head_arg, arg_index, map) ==
    IF head_arg.type = "variable"
    THEN LET found == search_argument_mapping_in_body_atoms(map, head_arg.name)
         IN IF found.raised # "" THEN found
            ELSE Return([acc EXCEPT
                     !.head_arg_type_map = Append(@, "var"),
                     !.head_arg_to_body_atom_arg_map =
                         DictSet(@, arg_index, found.value)])
    ELSE IF head_arg.type = "aggregation"
    THEN LET head_arg_name == head_arg.agg.agg_arg
             acc1 == [acc EXCEPT
                         !.head_arg_type_map = Append(@, "agg"),
                         !.head_aggregation_map =
                             DictSet(@, arg_index, head_arg.agg.agg_op)]
         IN IF head_arg_name.type = "attribute"
            THEN LET found == search_argument_mapping_in_body_atoms(
                                  map, head_arg_name.content)
                 IN IF found.raised # "" THEN found
                    ELSE Return([acc1 EXCEPT
                             !.head_arg_to_body_atom_arg_map =
                                 DictSet(@, arg_index,
                                         [type |-> "attribute",
                                          map |-> found.value])])
            ELSE IF head_arg_name.type = "math_expr"
            THEN LET m == math_expr_mapping(map, head_arg_name.expr)
                 IN IF m.raised # "" THEN m
                    ELSE Return([acc1 EXCEPT
                             !.head_arg_to_body_atom_arg_map =
                                 DictSet(@, arg_index, m.value)])
            ELSE Return(acc1)
    ELSE IF head_arg.type = "math_expr"
    THEN LET m == math_expr_mapping(map, head_arg.expr)
         IN IF m.raised # "" THEN m
            ELSE Return([acc EXCEPT
                     !.head_arg_type_map = Append(@, "math_expr"),
                     !.head_arg_to_body_atom_arg_map =
                         DictSet(@, arg_index, m.value)])
    ELSE IF head_arg.type = "constant"
    THEN Return([acc EXCEPT
             !.head_arg_type_map = Append(@, "constant"),
             !.head_arg_to_body_atom_arg_map =
                 DictSet(@, arg_index, head_arg.name)])
    ELSE Return(acc)

RECURSIVE SelectionLoop(_, _, _, _)
SelectionLoop(acc, head_arg_list, map, n) ==
    IF n > Len(head_arg_list) THEN Return(acc)
    ELSE LET step == selection_step(acc, head_arg_list[n], n - 1, map)
         IN IF step.raised # "" THEN step
            ELSE SelectionLoop(step.value, head_arg_list, map, n + 1)

extract_selection_map(head, map) ==
    SelectionLoop([head_arg_to_body_atom_arg_map |-> << >>,
                   head_arg_type_map |-> << >>,
                   head_aggregation_map |-> << >>],
                  head.arg_list, map, 1)

(***************************************************************************)
(* The per-rule analysis as a state machine: the index is built from the   *)
(* positive body first, then one of the extractors is called with it.      *)
(***************************************************************************)
BodyVars == {"x", "y"}
AbsentVar == "w"
VarNames == BodyVars \cup {AbsentVar}

BodyArgs == {[type |-> "variable", name |-> v] : v \in BodyVars}
            \cup {[type |-> "constant", name |-> "1"]}

NegationArgs == {[type |-> "variable", name |-> "x"],
                 [type |-> "variable", name |-> AbsentVar],
                 [type |-> "constant", name |-> "1"]}

\* the lists of atoms (one argument at least each) with n arguments in total
RECURSIVE AtomLists(_, _)
AtomLists(Args, n) ==
    IF n = 0 THEN {<< >>}
    ELSE UNION {{<< [name |-> "Edge", arg_list |-> al] >> \o rest :
                    al \in [1..k -> Args], rest \in AtomLists(Args, n - k)} :
                k \in 1..n}

Bodies == UNION {AtomLists(BodyArgs, n) : n \in 0..MaxBodyArgs}

NegationLists == UNION {AtomLists(NegationArgs, n) : n \in 0..MaxNegationArgs}

Operands == {<<"x", "var">>, <<"y", "var">>, <<"5", "num">>}

Comparisons == [lhs : Operands, rhs : Operands, op : {"<"}]

MathExprs == [lhs : {"x"}, rhs : {"x", AbsentVar}, op : {"+"}]

HeadArgs ==
    {[type |-> "variable", name |-> v] : v \in {"x", AbsentVar}}
    \cup {[type |-> "constant", name |-> "1"]}
    \cup {[type |-> "math_expr", expr |-> e] : e \in MathExprs}
    \cup {[type |-> "aggregation",
           agg |-> [agg_op |-> "sum",
                    agg_arg |-> [type |-> "attribute", content |-> v]]] :
             v \in {"x", AbsentVar}}
    \cup {[type |-> "aggregation",
           agg |-> [agg_op |-> "sum",
                    agg_arg |-> [type |-> "math_expr", expr |-> e]]] :
             e \in MathExprs}

Heads == {[name |-> "T", arg_list |-> al] :
             al \in SeqsUpTo(HeadArgs, MaxHeadArgs)}

Init ==
    /\ pc = "start"
    /\ body_atoms \in Bodies
    /\ variable_arg_to_atom_map = << >>
    /\ call = None
    /\ result = None
    /\ eval_idb_to_rule_maps = {}
    /\ iter_num = 1
    /\ atom_aliases_map = None
    /\ atom_eval_name_groups = << >>
    /\ atom_index = 0
    /\ group_iter = 0

ExtractVariableArgToAtomMap ==
    /\ pc = "start"
    /\ variable_arg_to_atom_map' = extract_variable_arg_to_atom_map(body_atoms)
    /\ pc' = "indexed"
    /\ UNCHANGED <<body_atoms, call, result, groups_vars>>

SearchArgumentMapping ==
    /\ pc = "indexed"
    /\ \E var_name \in VarNames :
           /\ call' = [op |-> "search", var_name |-> var_name]
           /\ result' = search_argument_mapping_in_body_atoms(
                            variable_arg_to_atom_map, var_name)
    /\ pc' = "returned"
    /\ UNCHANGED <<body_atoms, variable_arg_to_atom_map, groups_vars>>

ExtractJoinMap ==
    /\ pc = "indexed"
    /\ call' = [op |-> "join"]
    /\ result' = Return(extract_join_map(variable_arg_to_atom_map))
    /\ pc' = "returned"
    /\ UNCHANGED <<body_atoms, variable_arg_to_atom_map, groups_vars>>

ExtractComparisonMap ==
    /\ pc = "indexed"
    /\ \E body_comparisons \in SeqsUpTo(Comparisons, MaxComparisons) :
           /\ call' = [op |-> "comparison", body_comparisons |-> body_comparisons]
           /\ result' = extract_comparison_map(body_comparisons,
                                               variable_arg_to_atom_map)
    /\ pc' = "returned"
    /\ UNCHANGED <<body_atoms, variable_arg_to_atom_map, groups_vars>>

ExtractNegationMap ==
    /\ pc = "indexed"
    /\ \E body_negation_atoms \in NegationLists :
           /\ call' = [op |-> "negation",
                       body_negation_atoms |-> body_negation_atoms]
           /\ result' = extract_negation_map(body_negation_atoms,
                                             variable_arg_to_atom_map)
    /\ pc' = "returned"
    /\ UNCHANGED <<body_atoms, variable_arg_to_atom_map, groups_vars>>

ExtractSelectionMap ==
    /\ pc = "indexed"
    /\ \E head \in Heads :
           /\ call' = [op |-> "selection", head |-> head]
           /\ result' = extract_selection_map(head, variable_arg_to_atom_map)
    /\ pc' = "returned"
    /\ UNCHANGED <<body_atoms, variable_arg_to_atom_map, groups_vars>>

Next ==
    \/ ExtractVariableArgToAtomMap
    \/ SearchArgumentMapping
    \/ ExtractJoinMap
    \/ ExtractComparisonMap
    \/ ExtractNegationMap
    \/ ExtractSelectionMap

Spec == Init /\ [][Next]_vars

(***************************************************************************)
(* Properties of the per-rule analysis.  The occurrences of a variable are *)
(* read off the body itself, not off the index.                            *)
(***************************************************************************)
Occurrences(v) ==
    UNION {{<<i - 1, j - 1>> :
               j \in {k \in 1..Len(body_atoms[i].arg_list) :
                         body_atoms[i].arg_list[k]
                             = [type |-> "variable", name |-> v]}} :
           i \in 1..Len(body_atoms)}

InBody(v) == Occurrences(v) # {}

\* smallest by atom index, then by argument position
FirstOccurrence(v) ==
    LET occ == Occurrences(v)
        pos == CHOOSE p \in occ :
                   \A q \in occ : \/ p[1] < q[1]
                                  \/ (p[1] = q[1] /\ p[2] <= q[2])
    IN [atom_index |-> pos[1], arg_index |-> pos[2]]

Called(op) == pc = "returned" /\ call.op = op

\* C3: a negated atom holding a variable that occurs nowhere in the positive
\* body is analysed without error; that position is recorded in NegationMap
\* and left out of AntiJoinMap, the resolvable positions are in AntiJoinMap
\* with their resolved pair.
C3_UnmatchedNegationVariable ==
    (/\ Called("negation")
     /\ \E n \in 1..Len(call.body_negation_atoms) :
        \E a \in 1..Len(call.body_negation_atoms[n].arg_list) :
            /\ call.body_negation_atoms[n].arg_list[a].type = "variable"
            /\ ~InBody(call.body_negation_atoms[n].arg_list[a].name))
    => /\ result.raised = ""
       /\ \A n \in 1..Len(call.body_negation_atoms) :
          \A a \in 1..Len(call.body_negation_atoms[n].arg_list) :
              LET arg == call.body_negation_atoms[n].arg_list[a]
                  anti == result.value.anti_join_map
                  in_anti == /\ (n - 1) \in DOMAIN anti
                             /\ (a - 1) \in DOMAIN anti[n - 1]
              IN /\ result.value.negation_map[n - 1][a - 1]
                        = [arg_name |-> arg.name, arg_type |-> arg.type]
                 /\ (arg.type = "variable" /\ ~InBody(arg.name)) => ~in_anti
                 /\ (arg.type = "variable" /\ InBody(arg.name))
                        => (in_anti /\ anti[n - 1][a - 1] = FirstOccurrence(arg.name))

\* C4: every name of the index has at least one pair, and the resolver
\* returns for it the occurrence that is smallest by atom index and then by
\* argument position (never None).
C4_FirstOccurrenceWins ==
    /\ (pc # "start")
       => \A n \in 1..Len(variable_arg_to_atom_map) :
              \E a \in 1..Len(variable_arg_to_atom_map[n].val) :
                  Len(variable_arg_to_atom_map[n].val[a].val) >= 1
    /\ (Called("search") /\ HasKey(variable_arg_to_atom_map, call.var_name))
       => /\ result.raised = ""
          /\ InBody(call.var_name)
          /\ result.value = FirstOccurrence(call.var_name)

C4_Witness ==
    /\ Called("search")
    /\ Cardinality(Occurrences(call.var_name)) >= 3
    /\ result.raised = ""
    /\ result.value = [atom_index |-> 0, arg_index |-> 0]

\* C5: asked for a name that never occurs in the positive body the resolver
\* returns "not found" to its caller instead of failing, and
\* extract_selection_map on a head variable absent from the body still
\* returns its three structures with that position's source as no mapping.
C5_AbsentNameIsNotFound ==
    /\ (Called("search") /\ ~InBody(call.var_name))
       => (result.raised = "" /\ result.value = None)
    /\ (/\ Called("selection")
        /\ \E a \in 1..Len(call.head.arg_list) :
               /\ call.head.arg_list[a].type = "variable"
               /\ ~InBody(call.head.arg_list[a].name))
       => /\ result.raised = ""
          /\ Len(result.value.head_arg_type_map) = Len(call.head.arg_list)
          /\ \A a \in 1..Len(call.head.arg_list) :
                 (/\ call.head.arg_list[a].type = "variable"
                  /\ ~InBody(call.head.arg_list[a].name))
                 => result.value.head_arg_to_body_atom_arg_map[a - 1] = None

\* C6: a variable is a key of the JoinMap iff it has two occurrences or more
\* in the body; every key is a key of the index with the identical lists.
C6_JoinMapKeys ==
    Called("join")
    => /\ result.raised = ""
       /\ \A v \in VarNames :
              HasKey(result.value, v) <=> Cardinality(Occurrences(v)) >= 2
       /\ \A n \in 1..Len(result.value) :
              /\ HasKey(variable_arg_to_atom_map, result.value[n].key)
              /\ result.value[n].val
                     = Get(variable_arg_to_atom_map, result.value[n].key)

C6_Witness ==
    /\ Called("join")
    /\ Len(body_atoms) = 2
    /\ Cardinality(Occurrences("x")) = 2
    /\ Occurrences("x") \subseteq {<<0, 0>>, <<0, 1>>}
    /\ Cardinality(Occurrences("y")) = 1
    /\ HasKey(result.value, "x")
    /\ ~HasKey(result.value, "y")

NoVariableOperand(c) == c.lhs[2] # "var" /\ c.rhs[2] # "var"

\* C7: a comparison with neither operand tagged 'var', wherever it stands
\* in the sequence, makes the extraction fail with an error; no
\* ComparisonMap is returned.
C7_MalformedComparisonFails ==
    (/\ Called("comparison")
     /\ \E n \in 1..Len(call.body_comparisons) :
            NoVariableOperand(call.body_comparisons[n]))
    => (result.raised # "" /\ result.value = None)

C7_Witness ==
    /\ Called("comparison")
    /\ Len(call.body_comparisons) = 2
    /\ call.body_comparisons[1] = [lhs |-> <<"x", "var">>, rhs |-> <<"5", "num">>, op |-> "<"]
    /\ NoVariableOperand(call.body_comparisons[2])
    /\ InBody("x")
    /\ result.raised = "Exception"

\* the base operand of a comparison and what C9 expects of its descriptor
BaseSide(c) == IF c.lhs[2] = "var" THEN "l" ELSE "r"
BaseVar(c) == IF c.lhs[2] = "var" THEN c.lhs[1] ELSE c.rhs[1]
OtherOperand(c) == IF c.lhs[2] = "var" THEN c.rhs ELSE c.lhs

ComparisonVars(c) ==
    {o[1] : o \in {p \in {c.lhs, c.rhs} : p[2] = "var"}}

\* first is the function from the variables of the body to their first
\* occurrence
ExpectedDescriptor(c, first) ==
    IF OtherOperand(c)[2] = "var"
    THEN [base_variable_side |-> BaseSide(c), compare_op |-> c.op,
          other_side_type |-> "var",
          other_side_atom_index |-> first[OtherOperand(c)[1]].atom_index,
          other_side_arg_index |-> first[OtherOperand(c)[1]].arg_index]
    ELSE [base_variable_side |-> BaseSide(c), compare_op |-> c.op,
          other_side_type |-> "num", numerical_value |-> 50]

\* the descriptors expected at one position, in input order
RECURSIVE ExpectedAt(_, _, _, _)
ExpectedAt(comparisons, pos, first, n) ==
    IF n > Len(comparisons) THEN << >>
    ELSE (IF first[BaseVar(comparisons[n])] = pos
          THEN << ExpectedDescriptor(comparisons[n], first) >> ELSE << >>)
         \o ExpectedAt(comparisons, pos, first, n + 1)

\* C9: when every comparison has a 'var' operand and every variable occurs
\* in the positive body, each comparison yields exactly one descriptor at the
\* resolved position of its base variable (left operand if tagged 'var',
\* side 'l', otherwise the right one, side 'r'); descriptors of one position
\* accumulate in input order.
C9_OneDescriptorPerComparison ==
    (/\ Called("comparison")
     /\ \A n \in 1..Len(call.body_comparisons) :
            /\ ~NoVariableOperand(call.body_comparisons[n])
            /\ \A v \in ComparisonVars(call.body_comparisons[n]) : InBody(v))
    => /\ result.raised = ""
       /\ LET first == [v \in {w \in BodyVars : InBody(w)} |-> FirstOccurrence(v)]
              map == result.value
              present(pos) == /\ pos.atom_index \in DOMAIN map
                              /\ pos.arg_index \in DOMAIN map[pos.atom_index]
          IN /\ \A n \in 1..Len(call.body_comparisons) :
                    present(first[BaseVar(call.body_comparisons[n])])
             /\ \A a \in DOMAIN map : \A p \in DOMAIN map[a] :
                    /\ map[a][p] # << >>
                    /\ map[a][p] = ExpectedAt(call.body_comparisons,
                                              [atom_index |-> a, arg_index |-> p],
                                              first, 1)

C9_Witness ==
    /\ Called("comparison")
    /\ call.body_comparisons = << [lhs |-> <<"5", "num">>, rhs |-> <<"x", "var">>, op |-> "<"],
                     [lhs |-> <<"x", "var">>, rhs |-> <<"y", "var">>, op |-> "<"] >>
    /\ InBody("y")
    /\ result.raised = ""
    /\ FirstOccurrence("x") = [atom_index |-> 1, arg_index |-> 0]
    /\ Len(result.value[1][0]) = 2
    /\ result.value[1][0][1].base_variable_side = "r"
    /\ result.value[1][0][2].base_variable_side = "l"

====
